---- MODULE Spec2Model ----
(***************************************************************************)
(* State-machine model of the canva-indexer: the polling watcher           *)
(* (watcher.rs), the SQLite state store (db.rs), the pixel codec and       *)
(* validator (pixel.rs) and user admission (api.rs).                       *)
(*                                                                         *)
(* Scaling.  Time is counted in abstract units instead of microseconds:    *)
(* one unit is one poll period.  Event IDs are IdLen Crockford characters  *)
(* decoded into a WordBits-bit word (the code: 13 characters into 64 bits, *)
(* i.e. one bit less than 5 * length), so that the shift overflow and the  *)
(* signed reinterpretation of the code exist in the model.                 *)
(***************************************************************************)
EXTENDS Integers, Sequences, FiniteSets, TLC

VARIABLES
    world,          \* which objects the homeservers hold (never changes)
    users,          \* table users: public_key -> [homeserver_pk, cursor]
    pixel_events,   \* table pixel_events, in insertion (rowid) order
    canvas_state,   \* table canvas_state: <<x, y>> -> cell
    canvas_resizes, \* table canvas_resizes, in insertion order
    sse_tx,         \* every message sent on the broadcast channel, in order
    now,            \* the wall clock
    pc,             \* the watcher task: "idle" between ticks, "cycle" in
                    \* poll_cycle, "stopped" once the loop of run is left
    cycle_result,   \* run: the Result of the last poll_cycle ("None": none yet,
                    \* or one is running)
    groups,         \* poll_cycle: the snapshot homeserver -> tracked users
    failed,         \* poll_cycle: homeservers warned about in this cycle
                    \* because their events-stream request failed
    todo,           \* poll_cycle: homeservers of the snapshot not polled yet
    hs_pk,          \* poll_homeserver: the homeserver being polled
    hs_result,      \* poll_homeserver: its Result ("Running": in its loop)
    event,          \* poll_homeserver: the parsed event processed last
    result,         \* process_pixel_event: its Result for that event
    requests,       \* api: the PUTs of a public key, each with the point its
                    \* handler (ingest_user) has reached and its response
    shutdown,       \* main: the shutdown signal was sent on the watch channel
    missed,         \* run: a tick of the interval came due while poll_cycle
                    \* was running
    call            \* a call of a function of the program taken by itself
                    \* (CanvaPixel::validate, parse_timestamp_id,
                    \* parse_sse_response): its arguments and its return

vars == <<world, users, pixel_events, canvas_state, canvas_resizes, sse_tx, now,
          pc, cycle_result, groups, failed, todo, hs_pk, hs_result, event,
          result, requests, call, shutdown, missed>>

store == <<pixel_events, canvas_state, canvas_resizes>>

----------------------------------------------------------------------------
\* Bounds of the model

\* the clock stops here
MaxTime == 4
\* rows of pixel_events
MaxEvents == 4
\* cells of the largest canvas the resize controller may grow to
MaxCells == 4
\* admission requests over a run
MaxRequests == 2

----------------------------------------------------------------------------
\* Configuration (config.rs, CanvasConfig) and program constants

initial_size == 1
max_credits == 1
\* credit_regen_seconds as i64 * 1_000_000, in time units
regen_us == 2
\* 1727740800000000 microseconds, in time units
oct_first_2024 == 1
\* 2 * 60 * 1_000_000 microseconds, in time units
max_future_skew == 1
\* id.len() != 13, scaled
IdLen == 2
\* value << 5
BitsPerChar == 5
\* u64, scaled to 5 * IdLen - 1 as 64 = 5 * 13 - 1
WordBits == 9

PublicKeys == {"alice", "bob"}

\* microseconds in a second: SystemTime .. as_secs() against
\* timestamp_micros(), and credit_regen_seconds * 1_000_000
MicrosPerSec == 4

as_secs(micros) == micros \div MicrosPerSec


----------------------------------------------------------------------------
\* pixel.rs: the Crockford-Base32 codec

RECURSIVE Pow2(_)
Pow2(n) == IF n = 0 THEN 1 ELSE 2 * Pow2(n - 1)

Lower == [c \in {"a","b","c","d","e","f","g","h","i","j","k","l","m","n","o",
                 "p","q","r","s","t","u","v","w","x","y","z"} |->
            CASE c = "a" -> "A" [] c = "b" -> "B" [] c = "c" -> "C"
              [] c = "d" -> "D" [] c = "e" -> "E" [] c = "f" -> "F"
              [] c = "g" -> "G" [] c = "h" -> "H" [] c = "i" -> "I"
              [] c = "j" -> "J" [] c = "k" -> "K" [] c = "l" -> "L"
              [] c = "m" -> "M" [] c = "n" -> "N" [] c = "o" -> "O"
              [] c = "p" -> "P" [] c = "q" -> "Q" [] c = "r" -> "R"
              [] c = "s" -> "S" [] c = "t" -> "T" [] c = "u" -> "U"
              [] c = "v" -> "V" [] c = "w" -> "W" [] c = "x" -> "X"
              [] c = "y" -> "Y" [] c = "z" -> "Z"]

to_ascii_uppercase(c) == IF c \in DOMAIN Lower THEN Lower[c] ELSE c

\* None is -1
crockford_char_value(c) ==
    LET u == to_ascii_uppercase(c) IN
    CASE u \in {"0", "O"} -> 0
      [] u \in {"1", "I", "L"} -> 1
      [] u = "2" -> 2   [] u = "3" -> 3   [] u = "4" -> 4   [] u = "5" -> 5
      [] u = "6" -> 6   [] u = "7" -> 7   [] u = "8" -> 8   [] u = "9" -> 9
      [] u = "A" -> 10  [] u = "B" -> 11  [] u = "C" -> 12  [] u = "D" -> 13
      [] u = "E" -> 14  [] u = "F" -> 15  [] u = "G" -> 16  [] u = "H" -> 17
      [] u = "J" -> 18  [] u = "K" -> 19  [] u = "M" -> 20  [] u = "N" -> 21
      [] u = "P" -> 22  [] u = "Q" -> 23  [] u = "R" -> 24  [] u = "S" -> 25
      [] u = "T" -> 26  [] u = "V" -> 27  [] u = "W" -> 28  [] u = "X" -> 29
      [] u = "Y" -> 30  [] u = "Z" -> 31
      [] OTHER -> -1

\* the loop of parse_timestamp_id: value = (value << 5) | digit, in a
\* WordBits-bit unsigned word
RECURSIVE DecodeFrom(_, _, _)
DecodeFrom(id, i, value) ==
    IF i > Len(id) THEN value
    ELSE DecodeFrom(id, i + 1,
            ((value * Pow2(BitsPerChar)) % Pow2(WordBits))
                + crockford_char_value(id[i]))

\* value as i64: the two's complement reading of the word
AsSigned(value) ==
    IF value >= Pow2(WordBits - 1) THEN value - Pow2(WordBits) ELSE value

\* Result<i64, String>: [ok, value]
DecodeError == [ok |-> FALSE, value |-> 0]

parse_timestamp_id(id) ==
    IF Len(id) # IdLen THEN DecodeError
    ELSE IF \E i \in 1..Len(id) : crockford_char_value(id[i]) = -1
         THEN DecodeError
         ELSE [ok |-> TRUE, value |-> AsSigned(DecodeFrom(id, 1, 0))]

\* the future bound alone
validate_timestamp_future_only(timestamp, clock) ==
    ~(timestamp > clock + max_future_skew)

\* pixel.rs validate_timestamp: TRUE is Ok(())
validate_timestamp(timestamp, clock) ==
    /\ ~(timestamp > clock + max_future_skew)
    /\ ~(timestamp < oct_first_2024)

----------------------------------------------------------------------------
\* pixel.rs: CanvaPixel::validate, in the four-argument form the watcher
\* calls: validate(canvas_width, canvas_height, &resize_history, timestamp)

Max(a, b) == IF a >= b THEN a ELSE b

\* the last record of history with max(width, height) >= required
FirstCovering_latest(history, i, required) ==
    LET covering == {k \in i..Len(history) :
                       Max(history[k].width, history[k].height) >= required}
    IN  IF covering = {} THEN 0
        ELSE CHOOSE k \in covering : \A j \in covering : j <= k

\* the first record of history, from index i on, with max(width, height) >=
\* required; 0 when there is none
RECURSIVE FirstCovering(_, _, _)
FirstCovering(history, i, required) ==
    IF i > Len(history) THEN 0
    ELSE IF Max(history[i].width, history[i].height) >= required THEN i
    ELSE FirstCovering(history, i + 1, required)

validate(pixel, canvas_width, canvas_height, resize_history, timestamp) ==
    IF pixel.color > 15 THEN "InvalidColor"
    ELSE IF pixel.x >= canvas_width \/ pixel.y >= canvas_height
         THEN "OutOfBounds"
    ELSE LET required_size == Max(pixel.x, pixel.y) + 1
             i == FirstCovering(resize_history, 1, required_size)
         IN  IF i = 0 THEN "CoordinateUncovered"
             ELSE IF timestamp < resize_history[i].activated_at
                  THEN "PreExpansionPlacement"
                  ELSE "Ok"

----------------------------------------------------------------------------
\* db.rs: the state store

\* open() followed by set_initial_size(): the seed record
SeedResizes == << [width |-> initial_size, height |-> initial_size,
                   activated_at |-> 0] >>

\* set_initial_size: with a single record in the table, the record at
\* activated_at = 0 takes the configured size
set_initial_size(resizes, size) ==
    IF Len(resizes) = 1
    THEN [k \in 1..Len(resizes) |->
            IF resizes[k].activated_at = 0
            THEN [width |-> size, height |-> size, activated_at |-> 0]
            ELSE resizes[k]]
    ELSE resizes

\* ORDER BY activated_at ASC: insertion of row r into a sorted sequence
RECURSIVE SortedInsert(_, _)
SortedInsert(sorted, r) ==
    IF sorted = << >> THEN << r >>
    ELSE IF r.activated_at < Head(sorted).activated_at
         THEN << r >> \o sorted
         ELSE << Head(sorted) >> \o SortedInsert(Tail(sorted), r)

RECURSIVE SortAsc(_)
SortAsc(rows) ==
    IF rows = << >> THEN << >>
    ELSE SortedInsert(SortAsc(SubSeq(rows, 1, Len(rows) - 1)), rows[Len(rows)])

get_resize_history(resizes) == SortAsc(resizes)

\* ORDER BY activated_at DESC LIMIT 1
get_canvas_dimensions(resizes) ==
    LET h == SortAsc(resizes) IN
    [width |-> h[Len(h)].width, height |-> h[Len(h)].height]

user_exists(us, public_key) == public_key \in DOMAIN us

\* INSERT OR REPLACE INTO users: the row of an existing key is written anew
add_user_replace(us, public_key, homeserver_pk, created_at) ==
    [k \in DOMAIN us \cup {public_key} |->
        IF k = public_key
        THEN [homeserver_pk |-> homeserver_pk, cursor |-> "",
              created_at |-> created_at]
        ELSE us[k]]

\* add_user: INSERT OR IGNORE INTO users (public_key, homeserver_pk,
\* created_at); the cursor column defaults to ''
add_user(us, public_key, homeserver_pk, created_at) ==
    IF public_key \in DOMAIN us THEN us
    ELSE [k \in DOMAIN us \cup {public_key} |->
            IF k = public_key
            THEN [homeserver_pk |-> homeserver_pk, cursor |-> "",
                  created_at |-> created_at]
            ELSE us[k]]

\* the map homeserver -> public keys of its users
get_users_by_homeserver(us) ==
    [h \in {us[k].homeserver_pk : k \in DOMAIN us} |->
        {k \in DOMAIN us : us[k].homeserver_pk = h}]

\* UPDATE users SET cursor = ?1 WHERE public_key = ?2
update_user_cursor(us, user_pk, cursor) ==
    IF user_pk \in DOMAIN us
    THEN [us EXCEPT ![user_pk].cursor = cursor]
    ELSE us

\* the window taken at the wall clock instead of the event's timestamp
count_recent_placements_wall_clock(events, user_pk, timestamp, regen) ==
    Cardinality({i \in 1..Len(events) :
                    /\ events[i].user_pk = user_pk
                    /\ events[i].placed_at > now - regen
                    /\ events[i].placed_at <= now})

count_recent_placements(events, user_pk, timestamp, regen) ==
    LET cutoff == timestamp - regen IN
    Cardinality({i \in 1..Len(events) :
                    /\ events[i].user_pk = user_pk
                    /\ events[i].placed_at > cutoff
                    /\ events[i].placed_at <= timestamp})

\* a dedupe lookup that never finds the row
pixel_event_exists_never(events, id) == FALSE

pixel_event_exists(events, id) == \E i \in 1..Len(events) : events[i].id = id

\* pixel_events.id is the PRIMARY KEY: an INSERT of a present id fails
PrimaryKeyConflict(events, id) == \E i \in 1..Len(events) : events[i].id = id

\* an insert keyed by the coordinate: the row of an earlier event at (x, y)
\* is replaced
InsertEventRow_by_coordinate(events, id, user_pk, x, y, color, placed_at) ==
    Append(SelectSeq(events, LAMBDA r : ~(r.x = x /\ r.y = y)),
           [id |-> id, user_pk |-> user_pk, x |-> x, y |-> y,
            color |-> color, placed_at |-> placed_at])

\* insert_pixel, first statement: INSERT INTO pixel_events
InsertEventRow(events, id, user_pk, x, y, color, placed_at) ==
    Append(events, [id |-> id, user_pk |-> user_pk, x |-> x, y |-> y,
                    color |-> color, placed_at |-> placed_at])

\* insert_pixel: newly_overwritten
NewlyOverwritten(was_overwritten, first_user, user_pk) ==
    ~was_overwritten /\ first_user # user_pk

\* a flag recomputed from the committing author alone
OwVal_recomputed(was_overwritten, first_user, user_pk) == first_user # user_pk

\* insert_pixel: ow_val
OwVal(was_overwritten, first_user, user_pk) ==
    NewlyOverwritten(was_overwritten, first_user, user_pk) \/ was_overwritten

\* insert_pixel, the match on the existing cell: INSERT or UPDATE canvas_state
UpsertCell(cells, user_pk, x, y, color, placed_at) ==
    IF <<x, y>> \notin DOMAIN cells
    THEN [c \in DOMAIN cells \cup {<<x, y>>} |->
            IF c = <<x, y>>
            THEN [color |-> color, user_pk |-> user_pk,
                  first_user_pk |-> user_pk, placed_at |-> placed_at,
                  was_overwritten |-> FALSE]
            ELSE cells[c]]
    ELSE [cells EXCEPT ![<<x, y>>] =
            [color |-> color, user_pk |-> user_pk,
             first_user_pk |-> @.first_user_pk, placed_at |-> placed_at,
             was_overwritten |->
                OwVal(@.was_overwritten, @.first_user_pk, user_pk)]]

\* insert_pixel's return value (was_new_cell, was_newly_overwritten)
InsertPixelReturn(cells, user_pk, x, y) ==
    IF <<x, y>> \notin DOMAIN cells THEN <<TRUE, FALSE>>
    ELSE <<FALSE, NewlyOverwritten(cells[<<x, y>>].was_overwritten,
                                   cells[<<x, y>>].first_user_pk, user_pk)>>

get_fill_stats(cells) ==
    [filled |-> Cardinality(DOMAIN cells),
     overwritten |-> Cardinality({c \in DOMAIN cells : cells[c].was_overwritten})]

\* an expansion repeated within the same check: two records at once
resize_canvas_twice(resizes, new_width, new_height, activated_at) ==
    resizes \o << [width |-> new_width, height |-> new_height,
                   activated_at |-> activated_at],
                  [width |-> new_width, height |-> 2 * new_height,
                   activated_at |-> activated_at] >>

resize_canvas(resizes, new_width, new_height, activated_at) ==
    Append(resizes, [width |-> new_width, height |-> new_height,
                     activated_at |-> activated_at])

----------------------------------------------------------------------------
\* What the outside world holds.  A world is the set of event blocks the
\* homeservers list in their events-streams and the blob stored under each
\* pixel URI; the watcher meets the blocks in any order, any number of times.

PixelPath == "pub/pubky-canva/pixels/"

Uri(scheme, user_pk, path, id) ==
    [scheme |-> scheme, user_pk |-> user_pk, path |-> path, id |-> id]

PixelUri(user_pk, id) == Uri("pubky://", user_pk, PixelPath, id)

Ev(event_type, uri, cursor) ==
    [event_type |-> event_type, uri |-> uri, cursor |-> cursor]

Px(x, y, color) == [x |-> x, y |-> y, color |-> color]

NoEvent == Ev("", Uri("", "", "", << >>), "")

BadJson == Px(-1, -1, -1)

Worlds == {1, 2, 3, 4}

\* the world of the admission requests
ApiWorld == 5

\* the values canvas.initial_size takes in the configuration file of world w
\* over the life of the deployment: in world 4 the operator edits it between
\* two runs
ConfiguredSizes(w) ==
    IF w = 4 THEN {initial_size, 2 * initial_size} ELSE {initial_size}

\* the parsed events parse_sse_response may hand to the loop of
\* poll_homeserver in world w
ParsedEvents(w) ==
    CASE w = 1 ->
         { Ev("PUT", PixelUri("alice", <<"0","2">>), "c1"),
           Ev("PUT", PixelUri("bob",   <<"0","3">>), "c1"),
           Ev("PUT", PixelUri("alice", <<"0","4">>), "c2"),
           Ev("PUT", PixelUri("bob",   <<"O","2">>), ""),
           Ev("DEL", PixelUri("alice", <<"0","2">>), "c2"),
           Ev("PUT", PixelUri("bob",   <<"0","U">>), "c2") }
      [] w = 2 ->
         { Ev("PUT", PixelUri("alice", <<"0","2">>), "c1"),
           Ev("PUT", PixelUri("bob",   <<"0","3">>), "c1"),
           Ev("PUT", PixelUri("alice", <<"0","4">>), "c2"),
           Ev("PUT", PixelUri("bob",   <<"0","1">>), "c2") }
      [] w = 4 ->
         { Ev("PUT", PixelUri("alice", <<"0","2">>), "c1"),
           Ev("PUT", PixelUri("bob",   <<"0","3">>), "c2"),
           Ev("PUT", PixelUri("alice", <<"0","4">>), "c2") }
      [] w = ApiWorld ->
         { Ev("PUT", PixelUri("alice", <<"0","2">>), "c1") }
      [] OTHER ->
         { Ev("PUT", PixelUri("alice", <<"0","2">>), "c1"),
           Ev("PUT", PixelUri("alice", <<"0","3">>), "c2"),
           Ev("PUT", PixelUri("alice", <<"O","3">>), "c1"),
           Ev("PUT", PixelUri("alice", <<"O","4">>), "c1"),
           Ev("PUT", PixelUri("alice", <<"Z","Z">>), "c1"),
           Ev("PUT", PixelUri("alice", <<"1">>), "c2"),
           Ev("PUT", PixelUri("bob",   <<"0","4">>), "c2"),
           Ev("PUT", Uri("pubky://", "alice", "pub/pubky.app/profile.json", << >>), "c2"),
           Ev("PUT", Uri("pubky://", "alice", PixelPath, << >>), "c2"),
           Ev("PUT", Uri("https://", "alice", PixelPath, <<"0","4">>), "c2") }

\* the JSON body stored under a pixel URI in world w
Blob(w, uri) ==
    CASE w = 1 ->
         CASE uri = PixelUri("alice", <<"0","2">>) -> Px(0, 0, 3)
           [] uri = PixelUri("bob",   <<"0","3">>) -> Px(0, 0, 11)
           [] uri = PixelUri("alice", <<"0","4">>) -> Px(1, 0, 3)
           [] uri = PixelUri("bob",   <<"O","2">>) -> Px(0, 1, 11)
           [] OTHER -> BadJson
      [] w = 2 ->
         CASE uri = PixelUri("alice", <<"0","2">>) -> Px(0, 0, 3)
           [] uri = PixelUri("bob",   <<"0","3">>) -> Px(0, 0, 11)
           [] uri = PixelUri("alice", <<"0","4">>) -> Px(0, 0, 5)
           [] uri = PixelUri("bob",   <<"0","1">>) -> Px(1, 0, 11)
           [] OTHER -> BadJson
      [] w = 4 ->
         CASE uri = PixelUri("alice", <<"0","2">>) -> Px(1, 0, 3)
           [] uri = PixelUri("bob",   <<"0","3">>) -> Px(0, 1, 11)
           [] uri = PixelUri("alice", <<"0","4">>) -> Px(0, 1, 5)
           [] OTHER -> BadJson
      [] w = ApiWorld ->
         CASE uri = PixelUri("alice", <<"0","2">>) -> Px(0, 0, 3)
           [] OTHER -> BadJson
      [] OTHER ->
         CASE uri = PixelUri("alice", <<"0","2">>) -> Px(0, 0, 3)
           [] uri = PixelUri("alice", <<"0","3">>) -> Px(0, 0, 5)
           [] uri = PixelUri("alice", <<"O","4">>) -> Px(0, 0, 16)
           [] uri = PixelUri("bob",   <<"0","4">>) -> Px(0, 0, 11)
           [] OTHER -> BadJson

\* the strings a client may PUT as a public key in world w
SubmittedKeys(w) ==
    IF w = ApiWorld THEN {"alice", "bob", "carol", "not-a-key"} ELSE PublicKeys

\* public_key.parse::<PublicKey>() (the pubky crate): Ok or Err
ParsesAsPublicKey(public_key) == public_key \in {"alice", "bob", "carol"}

\* the text of a homeserver URL: scheme, and what follows it cut at every '/'
HsUrl(scheme, rest) == [scheme |-> scheme, rest |-> rest]

\* get_homeserver_of answered None
NoHomeserver == HsUrl("none", << >>)

\* pkarr discovery of a user's homeserver (external): the answer of
\* get_homeserver_of in world w, as the text of hs_url.to_string()
get_homeserver_of(w, public_key) ==
    CASE w = ApiWorld /\ public_key = "alice" -> HsUrl("https://", <<"hs1", "">>)
      [] w = ApiWorld /\ public_key = "bob"   -> HsUrl("http://", <<"hs2", "events">>)
      [] w = ApiWorld /\ public_key = "carol" -> NoHomeserver
      [] w = 2 /\ public_key = "bob"          -> HsUrl("", <<"hs2">>)
      [] OTHER                                -> HsUrl("", <<"hs1">>)

\* the text itself: a bare key is its only segment
Whole(url_or_pk) ==
    IF url_or_pk.scheme = "" /\ Len(url_or_pk.rest) = 1
    THEN url_or_pk.rest[1]
    ELSE url_or_pk

\* the last segment of the text instead of the host
extract_homeserver_id_last(url_or_pk) == url_or_pk.rest[Len(url_or_pk.rest)]

\* extract_homeserver_id: strip_prefix("https://") or strip_prefix("http://"),
\* then rest.split('/').next(); any other text is handed back whole
extract_homeserver_id(url_or_pk) ==
    IF url_or_pk.scheme = "https://" THEN url_or_pk.rest[1]
    ELSE IF url_or_pk.scheme = "http://" THEN url_or_pk.rest[1]
    ELSE Whole(url_or_pk)

\* the homeserver_id ingest_user stores for a key whose discovery succeeds
HomeserverOf(w, public_key) ==
    extract_homeserver_id(get_homeserver_of(w, public_key))

----------------------------------------------------------------------------
\* watcher.rs

\* parse_pixel_uri: Some((user_pk, pixel_id)) as TRUE
\* parse_pixel_uri without the test of the scheme
parse_pixel_uri_any_scheme(uri) ==
    /\ uri.path = PixelPath
    /\ uri.id # << >>

parse_pixel_uri(uri) ==
    /\ uri.scheme = "pubky://"
    /\ uri.path = PixelPath
    /\ uri.id # << >>

\* poll_homeserver: the tests an event passes before process_pixel_event
Qualifies(ev, tracked) ==
    /\ ev.event_type = "PUT"
    /\ parse_pixel_uri(ev.uri)
    /\ ev.uri.user_pk \in tracked

PixelPlaced(pixel, user_pk, timestamp) ==
    [type |-> "pixel", x |-> pixel.x, y |-> pixel.y, color |-> pixel.color,
     user_pk |-> user_pk, placed_at |-> timestamp]

CanvasResized(old_width, old_height, new_width, new_height) ==
    [type |-> "resize", old_width |-> old_width, old_height |-> old_height,
     new_width |-> new_width, new_height |-> new_height]

Skip(r) ==
    /\ result' = r
    /\ UNCHANGED <<pixel_events, canvas_state, sse_tx>>

\* process_pixel_event from the insert on: insert_pixel, then the broadcast.
\* insert_pixel runs its statements in autocommit mode: a failure of the
\* statements on canvas_state leaves the pixel_events row in place.
CommitPixel(user_pk, pixel_id, pixel, timestamp) ==
    \/ Skip("ErrStoreCommit")
    \/ /\ ~PrimaryKeyConflict(pixel_events, pixel_id)
       /\ Len(pixel_events) < MaxEvents
       /\ pixel_events' = InsertEventRow(pixel_events, pixel_id, user_pk,
                                         pixel.x, pixel.y, pixel.color, timestamp)
       /\ \/ /\ result' = "ErrStoreCommit"
             /\ UNCHANGED <<canvas_state, sse_tx>>
          \/ /\ canvas_state' = UpsertCell(canvas_state, user_pk, pixel.x,
                                           pixel.y, pixel.color, timestamp)
             /\ sse_tx' = Append(sse_tx, PixelPlaced(pixel, user_pk, timestamp))
             /\ result' = "Ok"

\* process_pixel_event once the blob is decoded: validation and credits
CheckPixel(user_pk, pixel_id, pixel, timestamp) ==
    \/ Skip("ErrStoreRead")
    \/ LET dims == get_canvas_dimensions(canvas_resizes)
           v == validate(pixel, dims.width, dims.height,
                         get_resize_history(canvas_resizes), timestamp)
       IN  IF v # "Ok" THEN Skip(v)
           ELSE IF count_recent_placements(pixel_events, user_pk, timestamp,
                                           regen_us) >= max_credits
                THEN Skip("NoCredits")
                ELSE CommitPixel(user_pk, pixel_id, pixel, timestamp)

process_pixel_event(user_pk, pixel_id) ==
    \/ Skip("ErrStoreDedupe")
    \/ IF pixel_event_exists(pixel_events, pixel_id) THEN Skip("OkDup")
       ELSE LET parsed == parse_timestamp_id(pixel_id)
                timestamp == parsed.value
            IN
            IF ~parsed.ok THEN Skip("DecodeError")
            ELSE IF ~validate_timestamp(timestamp, now)
                 THEN Skip("StaleOrFutureTimestamp")
            ELSE \/ Skip("FetchFailed")
                 \/ LET pixel == Blob(world, PixelUri(user_pk, pixel_id)) IN
                    IF pixel = BadJson THEN Skip("InvalidPayload")
                    ELSE CheckPixel(user_pk, pixel_id, pixel, timestamp)

\* a cursor written only for the events that went through
ShouldUpdateCursor_on_success(r, cursor) ==
    cursor # "" /\ r \in {"Ok", "OkDup"}

\* poll_homeserver: whether the cursor of an event is written after
\* process_pixel_event returned r
ShouldUpdateCursor(r, cursor) == cursor # ""

\* one turn of the loop over the parsed events in poll_homeserver: the next
\* event of the response, its processing, the cursor update.  A failed
\* cursor update makes poll_homeserver return the error.
ProcessEvent ==
    /\ pc = "cycle"
    /\ hs_result = "Running"
    /\ \E ev \in ParsedEvents(world) :
        /\ event' = ev
        /\ IF ~Qualifies(ev, groups[hs_pk])
           THEN /\ Skip("Filtered")
                /\ UNCHANGED <<users, hs_result>>
           ELSE /\ process_pixel_event(ev.uri.user_pk, ev.uri.id)
                /\ IF ~ShouldUpdateCursor(result', ev.cursor)
                   THEN UNCHANGED <<users, hs_result>>
                   ELSE \/ /\ hs_result' = "ErrCursorWrite"
                           /\ UNCHANGED users
                        \/ /\ users' = update_user_cursor(users, ev.uri.user_pk,
                                                          ev.cursor)
                           /\ UNCHANGED hs_result
    /\ UNCHANGED <<world, canvas_resizes, now, pc, cycle_result, groups, failed,
                   todo, hs_pk, requests, call, shutdown, missed>>

\* an error of poll_homeserver propagated with `?`: poll_cycle returns
AfterPoll_propagate(r) == IF r = "ErrHttp" THEN "idle" ELSE "cycle"

\* poll_cycle: `if let Err(e) = poll_homeserver(..) { warn!(..) }`, the loop
\* goes on whatever poll_homeserver returned
AfterPoll(r) == "cycle"

\* poll_homeserver up to its loop, for the next homeserver of poll_cycle: the
\* events-stream request and the parse.  "Running": the response holds
\* events and the loop runs until the response is exhausted.
PollHomeserver ==
    /\ pc = "cycle"
    /\ \E h \in todo :
        /\ todo' = todo \ {h}
        /\ hs_pk' = h
        /\ hs_result' \in {"ErrHttp", "Ok", "Running"}
        /\ failed' = IF hs_result' = "ErrHttp" THEN failed \cup {h} ELSE failed
        /\ pc' = AfterPoll(hs_result')
    /\ UNCHANGED <<world, users, store, sse_tx, now, cycle_result, groups, event,
                   result, requests, call, shutdown, missed>>

\* a select! that polls its branches while poll_cycle is still running, as
\* if every tick were a task of its own
SelectReady_spawned(p) == p \in {"idle", "cycle"}

\* run: the select! of the loop is only reached between two poll_cycles,
\* poll_cycle being awaited inside the branch of the tick
SelectReady(p) == p = "idle"

\* a select! whose branch of the shutdown signal drops a running poll_cycle
CancelReady_in_flight(p) == p \in {"idle", "cycle"}

\* run: the branch of the shutdown signal, as the branch of the tick, is
\* only taken between two poll_cycles
CancelReady(p) == p = "idle"

\* the Err of poll_cycle propagated with `?`: run returns
AfterCycle_propagate(r) == IF r = "Err" THEN "stopped" ELSE "idle"

\* run: `if let Err(e) = poll_cycle(..).await { error!(..) }`, the loop goes
\* on whatever poll_cycle returned
AfterCycle(r) == "idle"

\* the branch of the tick, at clock time `at`: poll_cycle up to its loop, the
\* snapshot of the users
Tick(at) ==
    /\ SelectReady(pc)
    /\ now' = at
    /\ \/ /\ cycle_result' = "Err"
          /\ pc' = AfterCycle("Err")
          /\ UNCHANGED <<groups, failed, todo>>
       \/ LET g == get_users_by_homeserver(users) IN
            IF DOMAIN g = {}
            THEN /\ cycle_result' = "Ok"
                 /\ pc' = AfterCycle("Ok")
                 /\ UNCHANGED <<groups, failed, todo>>
            ELSE /\ groups' = g
                 /\ failed' = {}
                 /\ todo' = DOMAIN g
                 /\ pc' = "cycle"
                 /\ cycle_result' = "None"
    /\ UNCHANGED <<world, users, store, sse_tx, hs_pk, hs_result, event, result,
                   requests, call, shutdown>>

\* the period elapses while the loop waits in select!: the tick fires.  With
\* the shutdown signal pending the loop has already left select! by the
\* other branch.
PollCycle ==
    /\ now < MaxTime
    /\ ~shutdown
    /\ ~missed
    /\ Tick(now + 1)
    /\ UNCHANGED missed

\* the period elapses while poll_cycle runs: the interval keeps the tick
\* (MissedTickBehavior::Burst), the cycle goes on
Elapse ==
    /\ pc = "cycle"
    /\ ~missed
    /\ now < MaxTime
    /\ now' = now + 1
    /\ missed' = TRUE
    /\ UNCHANGED <<world, users, store, sse_tx, pc, cycle_result, groups, failed,
                   todo, hs_pk, hs_result, event, result, requests, call,
                   shutdown>>

\* the tick kept by the interval fires as soon as select! is reached again
PollCycleMissed ==
    /\ missed
    /\ pc # "stopped"
    /\ Tick(now)
    /\ missed' = FALSE

\* an expansion that doubles both sides at once
NextSize_both(canvas_width, canvas_height) ==
    [width |-> canvas_width * 2, height |-> canvas_height * 2]

\* check_resize: (new_width, new_height), the alternate expansion
NextSize(canvas_width, canvas_height) ==
    IF canvas_width = canvas_height
    THEN [width |-> canvas_width * 2, height |-> canvas_height]
    ELSE [width |-> canvas_width, height |-> canvas_height * 2]

\* check_resize, and the return of poll_cycle
CheckResize ==
    /\ pc = "cycle"
    /\ todo = {}
    /\ groups' = [h \in {} |-> {}]
    /\ failed' = {}
    /\ hs_pk' = ""
    /\ event' = NoEvent
    /\ result' = "None"
    /\ hs_result' = "None"
    /\ \/ /\ cycle_result' = "Err"
          /\ UNCHANGED <<canvas_resizes, sse_tx>>
       \/ LET dims == get_canvas_dimensions(canvas_resizes)
              stats == get_fill_stats(canvas_state)
              total_pixels == dims.width * dims.height
              half_pixels == total_pixels \div 2
              new_width == NextSize(dims.width, dims.height).width
              new_height == NextSize(dims.width, dims.height).height
          IN  /\ cycle_result' = "Ok"
              /\ IF /\ stats.filled >= total_pixels
                    /\ stats.overwritten >= half_pixels
                    /\ new_width * new_height <= MaxCells
                 THEN /\ canvas_resizes' =
                           resize_canvas(canvas_resizes, new_width, new_height, now)
                      /\ sse_tx' = Append(sse_tx,
                           CanvasResized(dims.width, dims.height, new_width, new_height))
                 ELSE UNCHANGED <<canvas_resizes, sse_tx>>
    /\ pc' = AfterCycle(cycle_result')
    /\ UNCHANGED <<world, users, pixel_events, canvas_state, now, todo, requests,
                   call, shutdown, missed>>

----------------------------------------------------------------------------
\* api.rs

\* ingest_user from its first line to its last with no other request in
\* between, for a key that is new and whose discovery succeeds
IngestUser ==
    /\ \E public_key \in PublicKeys :
        /\ ~user_exists(users, public_key)
        /\ ParsesAsPublicKey(public_key)
        /\ get_homeserver_of(world, public_key) # NoHomeserver
        /\ users' = add_user(users, public_key, HomeserverOf(world, public_key),
                             as_secs(now))
    /\ UNCHANGED <<world, store, sse_tx, now, pc, cycle_result, groups, failed,
                   todo, hs_pk, hs_result, event, result, requests, call,
                   shutdown, missed>>

\* a request in flight or answered: status 0 until the handler returns
Request(public_key, at, homeserver_id, status) ==
    [public_key |-> public_key, at |-> at, homeserver_id |-> homeserver_id,
     status |-> status]

ApiUnchanged ==
    UNCHANGED <<world, store, sse_tx, now, pc, cycle_result, groups, failed,
                todo, hs_pk, hs_result, event, result, call, shutdown, missed>>

\* PUT /api/ingest/{public_key} arrives: axum calls ingest_user
PutIngest ==
    /\ Len(requests) < MaxRequests
    /\ \E public_key \in SubmittedKeys(world) :
          requests' = Append(requests, Request(public_key, "user_exists", "", 0))
    /\ UNCHANGED users
    /\ ApiUnchanged

\* ingest_user, the existence check: 200 for a key that has a row, 500 on a
\* store error
IngestUserExists ==
    /\ \E r \in 1..Len(requests) :
        /\ requests[r].at = "user_exists"
        /\ \/ requests' = [requests EXCEPT ![r].at = "done", ![r].status = 500]
           \/ requests' =
                IF user_exists(users, requests[r].public_key)
                THEN [requests EXCEPT ![r].at = "done", ![r].status = 200]
                ELSE [requests EXCEPT ![r].at = "resolve"]
    /\ UNCHANGED users
    /\ ApiUnchanged

\* ingest_user, the key parse and the discovery: 400 for a string that is no
\* public key, 404 when discovery finds no homeserver
IngestUserResolve ==
    /\ \E r \in 1..Len(requests) :
        LET public_key == requests[r].public_key
            hs_url == get_homeserver_of(world, public_key)
        IN  /\ requests[r].at = "resolve"
            /\ requests' =
                 IF ~ParsesAsPublicKey(public_key)
                 THEN [requests EXCEPT ![r].at = "done", ![r].status = 400]
                 ELSE IF hs_url = NoHomeserver
                 THEN [requests EXCEPT ![r].at = "done", ![r].status = 404]
                 ELSE [requests EXCEPT ![r].at = "add_user",
                          ![r].homeserver_id = extract_homeserver_id(hs_url)]
    /\ UNCHANGED users
    /\ ApiUnchanged

\* ingest_user, the insert: 201, or 500 on a store error
IngestUserAdd ==
    /\ \E r \in 1..Len(requests) :
        /\ requests[r].at = "add_user"
        /\ \/ /\ requests' = [requests EXCEPT ![r].at = "done", ![r].status = 500]
              /\ UNCHANGED users
           \/ /\ users' = add_user(users, requests[r].public_key,
                                   requests[r].homeserver_id, as_secs(now))
              /\ requests' = [requests EXCEPT ![r].at = "done", ![r].status = 201]
    /\ ApiUnchanged

----------------------------------------------------------------------------
\* main.rs

\* the process stops at any point (shutdown, crash) and is started again on
\* the same database: main loads the configuration, opens the database,
\* applies the configured initial size and spawns the watcher; the requests
\* in flight end with no response (status 0)
Restart ==
    /\ \E size \in ConfiguredSizes(world) :
          canvas_resizes' = set_initial_size(canvas_resizes, size)
    /\ pc' = "idle"
    /\ cycle_result' = "None"
    /\ groups' = [h \in {} |-> {}]
    /\ failed' = {}
    /\ todo' = {}
    /\ hs_pk' = ""
    /\ hs_result' = "None"
    /\ event' = NoEvent
    /\ result' = "None"
    /\ requests' = [r \in 1..Len(requests) |->
                      IF requests[r].at = "done" THEN requests[r]
                      ELSE [requests[r] EXCEPT !.at = "done"]]
    /\ UNCHANGED <<world, users, pixel_events, canvas_state, sse_tx, now, call,
                   shutdown, missed>>

----------------------------------------------------------------------------

\* a call of validate: its arguments and, once it returned, its return
Call(pixel, canvas_width, canvas_height, resize_history, timestamp, ret) ==
    [pixel |-> pixel, canvas_width |-> canvas_width,
     canvas_height |-> canvas_height, resize_history |-> resize_history,
     timestamp |-> timestamp, ret |-> ret]

NoCall == Call(Px(0, 0, 0), 0, 0, << >>, 0, "None")

\* the state after construction, in world w
InitIn(w) ==
    /\ world = w
    /\ users = [k \in {} |-> 0]
    /\ pixel_events = << >>
    /\ canvas_state = [c \in {} |-> 0]
    /\ canvas_resizes = SeedResizes
    /\ sse_tx = << >>
    /\ now = oct_first_2024
    /\ pc = "idle"
    /\ cycle_result = "None"
    /\ groups = [h \in {} |-> {}]
    /\ failed = {}
    /\ todo = {}
    /\ hs_pk = ""
    /\ hs_result = "None"
    /\ event = NoEvent
    /\ result = "None"
    /\ requests = << >>
    /\ shutdown = FALSE
    /\ missed = FALSE

Init == call = NoCall /\ \E w \in Worlds : InitIn(w)

Next ==
    \/ IngestUser
    \/ PollCycle
    \/ PollHomeserver
    \/ ProcessEvent
    \/ CheckResize
    \/ Restart

Spec == Init /\ [][Next]_vars

\* the admission handler step by step, its requests interleaved with one
\* another and with the watcher
InitApi == call = NoCall /\ InitIn(ApiWorld)

NextApi ==
    \/ PutIngest
    \/ IngestUserExists
    \/ IngestUserResolve
    \/ IngestUserAdd
    \/ PollCycle
    \/ PollHomeserver
    \/ ProcessEvent
    \/ CheckResize
    \/ Restart

SpecApi == InitApi /\ [][NextApi]_vars

----------------------------------------------------------------------------
\* CanvaPixel::validate as a function of its arguments, at the sizes of a
\* deployment that starts at 16x16

Resize(width, height, activated_at) ==
    [width |-> width, height |-> height, activated_at |-> activated_at]

\* resize histories in ascending activated_at order
ValidateHistories ==
    { << Resize(16, 16, 0) >>,
      << Resize(16, 16, 0), Resize(32, 16, 100) >>,
      << Resize(16, 16, 0), Resize(32, 16, 100), Resize(32, 32, 200) >> }

ValidatePixels ==
    { Px(x, y, 3) : x \in {0, 15, 16, 20, 31, 32}, y \in {5, 15, 16, 31} }
        \cup { Px(20, 5, 15), Px(20, 5, 16), Px(0, 5, 255) }

ValidateSizes == { <<16, 16>>, <<32, 16>>, <<32, 32>> }

ValidateTimestamps == {0, 99, 100, 199, 200}

\* the arguments of one call
InitValidate ==
    /\ InitIn(ApiWorld)
    /\ \E pixel \in ValidatePixels, size \in ValidateSizes,
          resize_history \in ValidateHistories, timestamp \in ValidateTimestamps :
          call = Call(pixel, size[1], size[2], resize_history, timestamp, "None")

\* the call returns
Validate ==
    /\ call.ret = "None"
    /\ call' = [call EXCEPT !.ret = validate(call.pixel, call.canvas_width,
                                             call.canvas_height,
                                             call.resize_history, call.timestamp)]
    /\ UNCHANGED <<world, users, store, sse_tx, now, pc, cycle_result, groups,
                   failed, todo, hs_pk, hs_result, event, result, requests,
                   shutdown, missed>>

NextValidate == Validate

SpecValidate == InitValidate /\ [][NextValidate]_vars

----------------------------------------------------------------------------
\* one run of the process, from its start to its shutdown: the loop of
\* watcher::run with its interval and the shutdown signal of main

\* main: ctrl_c() returns and shutdown_tx.send(true)
Signal ==
    /\ ~shutdown
    /\ shutdown' = TRUE
    /\ UNCHANGED <<world, users, store, sse_tx, now, pc, cycle_result, groups,
                   failed, todo, hs_pk, hs_result, event, result, requests, call,
                   missed>>

\* run: the branch shutdown_rx.changed() of select!, and the break
Stop ==
    /\ shutdown
    /\ pc # "stopped"
    /\ CancelReady(pc)
    /\ pc' = "stopped"
    /\ UNCHANGED <<world, users, store, sse_tx, now, cycle_result, groups,
                   failed, todo, hs_pk, hs_result, event, result, requests, call,
                   shutdown, missed>>

InitRun == call = NoCall /\ InitIn(ApiWorld)

NextRun ==
    \/ IngestUser
    \/ PollCycle
    \/ Elapse
    \/ PollCycleMissed
    \/ PollHomeserver
    \/ ProcessEvent
    \/ CheckResize
    \/ Signal
    \/ Stop

SpecRun == InitRun /\ [][NextRun]_vars

\* the runtime keeps polling the task of the watcher, the timer fires and
\* the requests and store calls of a cycle return: every step of the loop
\* that stays possible is eventually taken.  The signal is the operator's.
SpecRunLive ==
    /\ SpecRun
    /\ WF_vars(PollCycle)
    /\ WF_vars(PollCycleMissed)
    /\ WF_vars(PollHomeserver)
    /\ WF_vars(CheckResize)
    /\ WF_vars(Stop)

----------------------------------------------------------------------------
\* parse_timestamp_id as a function of the id, and after the encoder of the
\* frontend

\* the encoder's alphabet, digit value + 1 -> character
CrockfordAlphabet ==
    << "0","1","2","3","4","5","6","7","8","9","A","B","C","D","E","F",
       "G","H","J","K","M","N","P","Q","R","S","T","V","W","X","Y","Z" >>

\* the id of the word v: IdLen characters of BitsPerChar bits, most
\* significant first
RECURSIVE EncodeFrom(_, _)
EncodeFrom(v, n) ==
    IF n = 0 THEN << >>
    ELSE Append(EncodeFrom(v \div Pow2(BitsPerChar), n - 1),
                CrockfordAlphabet[(v % Pow2(BitsPerChar)) + 1])

encode_timestamp_id(v) == EncodeFrom(v, IdLen)

\* characters the ids of the calls are written with
IdChars == {"0", "O", "o", "1", "I", "l", "2", "G", "g", "Z", "U", "-"}

DecodeIds ==
    { <<a, b>> : a \in IdChars, b \in IdChars }
        \cup { << >>, <<"0">>, <<"0", "0", "2">> }

\* calls of parse_timestamp_id on two ids
DecodePair(id, other, ret, other_ret) ==
    [fn |-> "decode", id |-> id, other |-> other, ret |-> ret,
     other_ret |-> other_ret]

\* a call of the encoder followed by parse_timestamp_id
RoundTrip(v, id, ret) == [fn |-> "round_trip", v |-> v, id |-> id, ret |-> ret]

Pending == [ok |-> FALSE, value |-> -1]

InitCodec ==
    /\ InitIn(ApiWorld)
    /\ \/ \E id \in DecodeIds, other \in DecodeIds :
            call = DecodePair(id, other, Pending, Pending)
       \/ \E v \in 0..(Pow2(WordBits) - 1) :
            call = RoundTrip(v, << >>, Pending)

WatcherUnchanged ==
    UNCHANGED <<world, users, store, sse_tx, now, pc, cycle_result, groups,
                failed, todo, hs_pk, hs_result, event, result, requests,
                shutdown, missed>>

Decode ==
    /\ call.fn = "decode"
    /\ call.ret = Pending
    /\ call' = [call EXCEPT !.ret = parse_timestamp_id(call.id),
                            !.other_ret = parse_timestamp_id(call.other)]
    /\ WatcherUnchanged

EncodeDecode ==
    /\ call.fn = "round_trip"
    /\ call.ret = Pending
    /\ LET id == encode_timestamp_id(call.v) IN
         call' = [call EXCEPT !.id = id, !.ret = parse_timestamp_id(id)]
    /\ WatcherUnchanged

NextCodec == Decode \/ EncodeDecode

SpecCodec == InitCodec /\ [][NextCodec]_vars

----------------------------------------------------------------------------
\* parse_sse_response as a function of the response text

MaxLines == 4

\* a line of the response: what strip_prefix("event: ") or
\* strip_prefix("data: ") leaves, and for a data line what
\* strip_prefix("cursor: ") or starts_with("content_hash:") leaves, trimmed
Line(prefix, sub, text) == [prefix |-> prefix, sub |-> sub, text |-> text]

AliceUriText == "pubky://alice/pub/pubky-canva/pixels/02"
BobUriText   == "pubky://bob/pub/pubky-canva/pixels/03"

ResponseLines ==
    { Line("event: ", "", "PUT"),
      Line("event: ", "", "DEL"),
      Line("data: ", "", AliceUriText),
      Line("data: ", "", BobUriText),
      Line("data: ", "cursor: ", "c1"),
      Line("data: ", "content_hash:", "r3"),
      Line("data: ", "", "index: 5"),
      Line("", "", "") }

RECURSIVE Texts(_)
Texts(n) ==
    IF n = 0 THEN { << >> }
    ELSE LET shorter == Texts(n - 1) IN
         shorter \cup { Append(t, l) : t \in { u \in shorter : Len(u) = n - 1 },
                                        l \in ResponseLines }

SseEventParsed(event_type, uri, cursor) ==
    [event_type |-> event_type, uri |-> uri, cursor |-> cursor]

\* the locals of parse_sse_response
ParserState(events, current_type, current_uri, current_cursor) ==
    [events |-> events, current_type |-> current_type,
     current_uri |-> current_uri, current_cursor |-> current_cursor]

\* the body of `for line in text.lines()`
ParseLine(st, line) ==
    IF line.prefix = "event: "
    THEN [st EXCEPT !.current_type = line.text]
    ELSE IF line.prefix = "data: "
    THEN IF line.sub = "cursor: "
         THEN [st EXCEPT !.current_cursor = line.text]
         ELSE IF line.sub = "content_hash:"
         THEN st
         ELSE IF line.text # ""
         THEN [st EXCEPT !.current_uri = line.text]
         ELSE st
    ELSE IF line = Line("", "", "") /\ st.current_type # ""
    THEN ParserState(Append(st.events,
                            SseEventParsed(st.current_type, st.current_uri,
                                           st.current_cursor)),
                     "", "", "")
    ELSE st

RECURSIVE ParseLines(_, _)
ParseLines(st, text) ==
    IF text = << >> THEN st
    ELSE ParseLines(ParseLine(st, Head(text)), Tail(text))

parse_sse_response(text) ==
    LET st == ParseLines(ParserState(<< >>, "", "", ""), text) IN
    IF st.current_type # "" /\ st.current_uri # ""
    THEN Append(st.events, SseEventParsed(st.current_type, st.current_uri,
                                          st.current_cursor))
    ELSE st.events

\* a call of parse_sse_response
ParseCall(text, returned, events) ==
    [fn |-> "parse_sse_response", text |-> text, returned |-> returned,
     events |-> events]

InitSse ==
    /\ InitIn(ApiWorld)
    /\ \E text \in Texts(MaxLines) : call = ParseCall(text, FALSE, << >>)

Parse ==
    /\ call.fn = "parse_sse_response"
    /\ ~call.returned
    /\ call' = [call EXCEPT !.returned = TRUE,
                            !.events = parse_sse_response(call.text)]
    /\ WatcherUnchanged

NextSse == Parse

SpecSse == InitSse /\ [][NextSse]_vars

----------------------------------------------------------------------------
\* Vocabulary of the properties

Rows == 1..Len(pixel_events)

RowsWithId(events, id) == Cardinality({i \in 1..Len(events) : events[i].id = id})

RowAt(i, c) == <<pixel_events[i].x, pixel_events[i].y>> = c

\* the loop of poll_homeserver handed event' to process_pixel_event
ProcessedQualifying == ProcessEvent /\ Qualifies(event', groups[hs_pk])

\* the cursor of event' was written to its user's row, nothing else of users
CursorAdvanced ==
    users' = [users EXCEPT ![event'.uri.user_pk].cursor = event'.cursor]

\* the Results of process_pixel_event that reject the event itself
Rejections == {"DecodeError", "StaleOrFutureTimestamp", "FetchFailed",
               "InvalidPayload", "InvalidColor", "OutOfBounds",
               "CoordinateUncovered", "PreExpansionPlacement", "NoCredits"}

PixelMessages == {k \in 1..Len(sse_tx) : sse_tx[k].type = "pixel"}

\* parse_timestamp_id of every id the worlds hold
DecodedIds ==
    [id \in {ev.uri.id : ev \in UNION {ParsedEvents(w) : w \in Worlds \cup {ApiWorld}}}
        |-> parse_timestamp_id(id)]

----------------------------------------------------------------------------
\* C1: replay idempotence.  When an event whose id already has a row in
\* pixel_events is delivered again (in the same response or in a later poll
\* cycle), process_pixel_event returns at the dedupe lookup: the store and
\* the bus are left as they were, the id keeps exactly one row, and the
\* cursor of the block is written to its user (when the block carries one
\* and the write goes through).  The delivery that commits an event adds
\* exactly one row with its id and sends exactly one PixelPlaced.
C1_ReplayIdempotent ==
    [][ProcessedQualifying =>
          LET id == event'.uri.id
              user_pk == event'.uri.user_pk
          IN
          /\ RowsWithId(pixel_events', id) <= 1
          /\ RowsWithId(pixel_events, id) = 1 =>
                /\ result' \in {"OkDup", "ErrStoreDedupe"}
                /\ UNCHANGED <<pixel_events, canvas_state, canvas_resizes, sse_tx>>
                /\ (event'.cursor # "" /\ hs_result' # "ErrCursorWrite")
                      => users'[user_pk].cursor = event'.cursor
          /\ result' = "Ok" =>
                /\ RowsWithId(pixel_events, id) = 0
                /\ RowsWithId(pixel_events', id) = 1
                /\ Len(pixel_events') = Len(pixel_events) + 1
                /\ Len(sse_tx') = Len(sse_tx) + 1
                /\ sse_tx'[Len(sse_tx')].type = "pixel"
                /\ sse_tx'[Len(sse_tx')].user_pk = user_pk
                /\ sse_tx'[Len(sse_tx')].placed_at =
                      pixel_events'[Len(pixel_events')].placed_at
       ]_vars

\* an event committed once has just been delivered again: one row, one
\* PixelPlaced of its author at its timestamp, the cursor at the block's value
C1_Witness ==
    /\ result = "OkDup"
    /\ event.cursor # ""
    /\ users[event.uri.user_pk].cursor = event.cursor
    /\ RowsWithId(pixel_events, event.uri.id) = 1
    /\ \E i \in Rows :
          /\ pixel_events[i].id = event.uri.id
          /\ pixel_events[i].user_pk = event.uri.user_pk
          /\ Cardinality({k \in PixelMessages :
                            /\ sse_tx[k].user_pk = pixel_events[i].user_pk
                            /\ sse_tx[k].placed_at = pixel_events[i].placed_at}) = 1

\* C2: credit conservation.  For every user and every instant T, the rows of
\* pixel_events of that user with placed_at in (T - regen, T] are at most
\* max_credits, in whatever order the events were delivered.
C2_CreditConservation ==
    \A user_pk \in PublicKeys :
        \A T \in 0..(MaxTime + max_future_skew) :
            Cardinality({i \in Rows :
                            /\ pixel_events[i].user_pk = user_pk
                            /\ pixel_events[i].placed_at > T - regen_us
                            /\ pixel_events[i].placed_at <= T}) <= max_credits

C4_FirstAuthorStable ==
    \A c \in DOMAIN canvas_state :
        \E i \in Rows :
            /\ RowAt(i, c)
            /\ \A j \in 1..(i - 1) : ~RowAt(j, c)
            /\ canvas_state[c].first_user_pk = pixel_events[i].user_pk

\* C5: overwrite monotonicity.  No step takes a cell away or sets the
\* was_overwritten flag of a cell back from true to false, whoever commits
\* at the coordinate afterwards.
C5_OverwriteMonotonic ==
    [][\A c \in DOMAIN canvas_state :
          /\ c \in DOMAIN canvas_state'
          /\ canvas_state[c].was_overwritten => canvas_state'[c].was_overwritten
      ]_vars

\* the first author has just committed again on a cell another author had
\* written: the cell shows the first author and the flag is still set
C5_Witness ==
    /\ result = "Ok"
    /\ \E c \in DOMAIN canvas_state :
          /\ canvas_state[c].was_overwritten
          /\ canvas_state[c].user_pk = canvas_state[c].first_user_pk
          /\ canvas_state[c].user_pk = event.uri.user_pk
          /\ pixel_events[Len(pixel_events)].id = event.uri.id
          /\ RowAt(Len(pixel_events), c)
          /\ \E j \in Rows : RowAt(j, c)
                /\ pixel_events[j].user_pk # canvas_state[c].first_user_pk

\* C6: overwrite accounting.  In every reachable state the was_overwritten
\* flag of a cell is set exactly when some row of pixel_events at the cell's
\* coordinate has an author other than the cell's first_user_pk.
C6_OverwrittenIff ==
    \A c \in DOMAIN canvas_state :
        canvas_state[c].was_overwritten
            <=> \E i \in Rows : /\ RowAt(i, c)
                                /\ pixel_events[i].user_pk
                                      # canvas_state[c].first_user_pk

\* C7: pixel events are insert-only.  Every step keeps every row of
\* pixel_events in its place with all of its fields, and no two rows share
\* an id, across polls, admissions and resizes.
C7_InsertOnly ==
    [][/\ Len(pixel_events') >= Len(pixel_events)
       /\ \A i \in 1..Len(pixel_events) : pixel_events'[i] = pixel_events[i]
       /\ \A i, j \in 1..Len(pixel_events') :
             pixel_events'[i].id = pixel_events'[j].id => i = j
      ]_vars

\* a second event has just been committed at a coordinate that already has
\* a row, after a resize took place
C7_Witness ==
    /\ result = "Ok"
    /\ Len(canvas_resizes) >= 2
    /\ \E i \in 1..(Len(pixel_events) - 1) :
          /\ pixel_events[i].x = pixel_events[Len(pixel_events)].x
          /\ pixel_events[i].y = pixel_events[Len(pixel_events)].y
          /\ pixel_events[i].id # pixel_events[Len(pixel_events)].id

\* C8: cursor tracking.  After the block of a tracked user that carries a
\* non-empty cursor is processed, whatever its event type and URI, the
\* stored cursor of that user is the block's cursor (the cursor write
\* itself going through).
C8_CursorTracksEveryBlock ==
    [][(/\ ProcessEvent
        /\ event'.cursor # ""
        /\ event'.uri.user_pk \in groups[hs_pk]
        /\ hs_result' # "ErrCursorWrite")
          => users'[event'.uri.user_pk].cursor = event'.cursor
      ]_vars

\* C9: no cursor advance on a store failure.  When the dedupe lookup or the
\* commit of an event fails in the store, no stored cursor changes.
C9_NoAdvanceOnStoreFailure ==
    [][(ProcessedQualifying /\ result' \in {"ErrStoreDedupe", "ErrStoreCommit"})
          => users' = users
      ]_vars

\* C10: a rejected event is skipped.  When an event fails the id decoding,
\* the timestamp validation, the blob fetch, the payload decoding, the
\* payload validation or the credit check, the store and the bus are left
\* as they were, and the cursor of the event, when non-empty, is written to
\* its user (the write itself going through).
C10_RejectedEventSkipped ==
    [][(ProcessedQualifying /\ result' \in Rejections) =>
          /\ UNCHANGED <<pixel_events, canvas_state, canvas_resizes, sse_tx>>
          /\ IF event'.cursor # "" /\ hs_result' # "ErrCursorWrite"
             THEN CursorAdvanced
             ELSE users' = users
      ]_vars

\* an event has just been refused for lack of credits and its cursor, which
\* differs from the one stored before, is now the stored one
C10_Witness ==
    /\ result = "NoCredits"
    /\ event.cursor = "c2"
    /\ users[event.uri.user_pk].cursor = "c2"
    /\ \E i \in Rows : /\ pixel_events[i].user_pk = event.uri.user_pk
                       /\ pixel_events[i].id # event.uri.id
    /\ \A i \in Rows : pixel_events[i].id # event.uri.id

\* C11: homeserver failure isolation.  While a homeserver is among those
\* whose events-stream request failed in the running cycle, no step changes
\* the row of any of its users; the failed poll itself changes neither store
\* nor bus and leaves the cycle running with the other homeservers still to
\* poll; a cycle is only left through the resize check, once every
\* homeserver of the snapshot has been polled; and the next cycle takes its
\* snapshot from the stored rows, so the failed homeserver is in it again.
C11_FailureIsolation ==
    [][/\ \A u \in DOMAIN users :
            users[u].homeserver_pk \in failed' => users'[u] = users[u]
       /\ (PollHomeserver /\ hs_result' = "ErrHttp") =>
            /\ UNCHANGED <<users, pixel_events, canvas_state, canvas_resizes,
                           sse_tx>>
            /\ pc' = "cycle"
            /\ todo' = todo \ {hs_pk'}
       /\ (pc = "cycle" /\ pc' = "idle") => ((todo = {} /\ CheckResize) \/ Restart)
       /\ (pc = "idle" /\ pc' = "cycle") =>
            /\ groups' = get_users_by_homeserver(users)
            /\ todo' = {users[u].homeserver_pk : u \in DOMAIN users}
      ]_vars

\* the request to hs1 failed, and in the same cycle an event of a user of
\* hs2 was committed; the user of hs1 has the cursor it was admitted with
C11_Witness ==
    /\ failed = {"hs1"}
    /\ hs_pk = "hs2"
    /\ result = "Ok"
    /\ \E u \in DOMAIN users : /\ users[u].homeserver_pk = "hs1"
                               /\ users[u].cursor = ""
    /\ \E u \in DOMAIN users : /\ users[u].homeserver_pk = "hs2"
                               /\ users[u].cursor # ""

\* C12: commit atomicity.  In every reachable state every coordinate that
\* has a row in pixel_events has its cell, and the cell shows the author,
\* color and timestamp of the latest row at the coordinate: no row is
\* present without the cell upsert of its commit.
C12_CommitAtomic ==
    \A i \in Rows :
        LET c == <<pixel_events[i].x, pixel_events[i].y>> IN
        /\ c \in DOMAIN canvas_state
        /\ (\A j \in (i + 1)..Len(pixel_events) : ~RowAt(j, c)) =>
              /\ canvas_state[c].user_pk = pixel_events[i].user_pk
              /\ canvas_state[c].color = pixel_events[i].color
              /\ canvas_state[c].placed_at = pixel_events[i].placed_at

\* C13: resize rule.  A record is appended to the resize history only by
\* the resize check of a cycle, and, the store answering and the grown
\* canvas staying within MaxCells, exactly when filled >= W * H and
\* overwritten >= floor(W * H / 2) for the current size (W, H); the record
\* is (2W, H) at the current time when W = H and (W, 2H) otherwise, and
\* one CanvasResized with the old and the new size is sent with it and at
\* no other step.  Every record is square or twice as wide as high.
C13_ResizeRule ==
    [][LET W == get_canvas_dimensions(canvas_resizes).width
           H == get_canvas_dimensions(canvas_resizes).height
           F == Cardinality(DOMAIN canvas_state)
           O == Cardinality({c \in DOMAIN canvas_state :
                                canvas_state[c].was_overwritten})
           due == F >= W * H /\ O >= (W * H) \div 2
           grown == IF W = H THEN <<2 * W, H>> ELSE <<W, 2 * H>>
           appended == Len(canvas_resizes') > Len(canvas_resizes)
           sent == Cardinality({k \in 1..Len(sse_tx') : sse_tx'[k].type = "resize"})
                     > Cardinality({k \in 1..Len(sse_tx) : sse_tx[k].type = "resize"})
       IN
       /\ appended <=> sent
       /\ appended =>
            /\ CheckResize
            /\ due
            /\ canvas_resizes' = Append(canvas_resizes,
                  [width |-> grown[1], height |-> grown[2], activated_at |-> now])
            /\ sse_tx' = Append(sse_tx,
                  [type |-> "resize", old_width |-> W, old_height |-> H,
                   new_width |-> grown[1], new_height |-> grown[2]])
       /\ (CheckResize /\ cycle_result' = "Ok" /\ due
             /\ grown[1] * grown[2] <= MaxCells) => appended
       /\ \A k \in 1..Len(canvas_resizes') :
             \/ canvas_resizes'[k].width = canvas_resizes'[k].height
             \/ canvas_resizes'[k].width = 2 * canvas_resizes'[k].height
      ]_vars

\* the resize check has just grown a non-square canvas: 1x1, 2x1, 2x2
C13_Witness ==
    /\ pc = "idle"
    /\ cycle_result = "Ok"
    /\ Len(canvas_resizes) = 3
    /\ canvas_resizes[2].width = 2 /\ canvas_resizes[2].height = 1
    /\ canvas_resizes[3].width = 2 /\ canvas_resizes[3].height = 2
    /\ canvas_resizes[3].activated_at = now
    /\ sse_tx[Len(sse_tx)].type = "resize"

----------------------------------------------------------------------------
\* C14: the resize history is append-only and monotonic.  No step, a restart
\* that re-applies the configured initial size included, modifies or removes
\* a record of canvas_resizes; consecutive records have strictly increasing
\* activated_at, neither width nor height decreases from one record to the
\* next and at least one of them increases; the current canvas size is the
\* size of the record with the greatest activated_at.
C14_ResizeHistoryAppendOnly ==
    [][ /\ Len(canvas_resizes') >= Len(canvas_resizes)
        /\ \A k \in 1..Len(canvas_resizes) : canvas_resizes'[k] = canvas_resizes[k]
        /\ \A k \in 1..(Len(canvas_resizes') - 1) :
             LET a == canvas_resizes'[k]
                 b == canvas_resizes'[k + 1]
             IN  /\ a.activated_at < b.activated_at
                 /\ a.width <= b.width
                 /\ a.height <= b.height
                 /\ a.width < b.width \/ a.height < b.height
        /\ \E k \in 1..Len(canvas_resizes') :
             /\ \A j \in 1..Len(canvas_resizes') :
                  canvas_resizes'[j].activated_at <= canvas_resizes'[k].activated_at
             /\ get_canvas_dimensions(canvas_resizes') =
                  [width |-> canvas_resizes'[k].width,
                   height |-> canvas_resizes'[k].height]
      ]_vars

----------------------------------------------------------------------------
\* C19: bounds and palette.  In every reachable state every row of
\* pixel_events and every cell of canvas_state has its color in 0..15 and
\* its coordinates inside the current canvas, x < W and y < H, each side on
\* its own; hence the number of filled cells is at most W * H.
C19_BoundsAndPalette ==
    LET dims == get_canvas_dimensions(canvas_resizes) IN
    /\ \A i \in Rows :
         /\ pixel_events[i].color \in 0..15
         /\ pixel_events[i].x >= 0 /\ pixel_events[i].x < dims.width
         /\ pixel_events[i].y >= 0 /\ pixel_events[i].y < dims.height
    /\ \A c \in DOMAIN canvas_state :
         /\ canvas_state[c].color \in 0..15
         /\ c[1] >= 0 /\ c[1] < dims.width
         /\ c[2] >= 0 /\ c[2] < dims.height
    /\ get_fill_stats(canvas_state).filled <= dims.width * dims.height

----------------------------------------------------------------------------
\* C15: admission is idempotent under any interleaving.  users holds one row
\* per key (public_key is its primary key); no step removes a row or changes
\* the homeserver identifier or the creation time of an existing row; and a
\* step of the admission handler, for a key that has a row already or for the
\* same key from two requests that both passed the existence check, leaves
\* every existing row as it was, the stored cursor included.
C15_AdmissionIdempotent ==
    [][ /\ \A k \in DOMAIN users :
             /\ k \in DOMAIN users'
             /\ users'[k].homeserver_pk = users[k].homeserver_pk
             /\ users'[k].created_at = users[k].created_at
        /\ (PutIngest \/ IngestUserExists \/ IngestUserResolve \/ IngestUserAdd)
             => \A k \in DOMAIN users : users'[k] = users[k]
        /\ IngestUserAdd =>
             \A k \in DOMAIN users' \ DOMAIN users :
                \E r \in 1..Len(requests) :
                   /\ requests[r].public_key = k
                   /\ requests[r].at = "add_user"
                   /\ requests'[r].status = 201
      ]_vars

\* two requests for alice passed the existence check; the first created the
\* row, the watcher then advanced its cursor, and the second ran its insert
\* a second later
C15_Witness ==
    /\ Len(requests) = 2
    /\ \A r \in 1..2 : requests[r] = Request("alice", "done", "hs1", 201)
    /\ DOMAIN users = {"alice"}
    /\ users["alice"] = [homeserver_pk |-> "hs1", cursor |-> "c1", created_at |-> 0]
    /\ as_secs(now) > 0

----------------------------------------------------------------------------
\* C16: admission outcomes.  A request whose key has a row at the existence
\* check is answered 200 (already present) at that check, with no discovery
\* and no write.  A request whose key has no row goes on to the parse and the
\* discovery: a string that is no public key is answered 400, a key whose
\* discovery returns nothing is answered 404 (HomeserverNotFound), and in
\* both cases no row is created.  A row is created only by the insert of a
\* request whose discovery succeeded, with an empty cursor and the host
\* identifier of the homeserver.
C16_AdmissionOutcomes ==
    [][ /\ \A r \in 1..Len(requests) :
             LET key == requests[r].public_key
                 answered == requests[r].at # "done" /\ requests'[r].at = "done"
                 status == requests'[r].status
             IN
             /\ (IngestUserExists /\ requests'[r] # requests[r]
                   /\ user_exists(users, key))
                  => answered /\ status \in {200, 500} /\ users' = users
             /\ (answered /\ status = 200)
                  => /\ requests[r].at = "user_exists"
                     /\ user_exists(users, key)
                     /\ users' = users
             /\ (IngestUserResolve /\ requests'[r] # requests[r])
                  => /\ users' = users
                     /\ ~(key \in {"alice", "bob", "carol"})
                          => answered /\ status = 400
                     /\ key = "carol" => answered /\ status = 404
                     /\ key \in {"alice", "bob"} => requests'[r].at = "add_user"
             /\ (answered /\ status \in {400, 404})
                  => /\ IngestUserResolve
                     /\ users' = users
                     /\ ~user_exists(users', key)
             /\ (answered /\ status = 201)
                  => IngestUserAdd /\ key \in {"alice", "bob"}
        /\ \A k \in DOMAIN users' \ DOMAIN users :
             /\ IngestUserAdd
             /\ k \in {"alice", "bob"}
             /\ users'[k].cursor = ""
             /\ users'[k].created_at = as_secs(now)
             /\ k = "alice" => users'[k].homeserver_pk = "hs1"
             /\ k = "bob" => users'[k].homeserver_pk = "hs2"
        /\ "carol" \notin DOMAIN users'
        /\ "not-a-key" \notin DOMAIN users'
      ]_vars

\* a key with no homeserver answered 404 and a key whose discovery gave
\* "http://hs2/events" created with the host hs2, the only row
C16_Witness ==
    /\ Len(requests) = 2
    /\ requests[1] = Request("carol", "done", "", 404)
    /\ requests[2] = Request("bob", "done", "hs2", 201)
    /\ DOMAIN users = {"bob"}
    /\ users["bob"].homeserver_pk = "hs2"
    /\ users["bob"].cursor = ""

----------------------------------------------------------------------------
\* C17: the credit check is taken at the event's own timestamp.  An event
\* that passed every other check, with timestamp ts and author u, is
\* rejected with NoCredits exactly when the number N of u's rows of
\* pixel_events with ts - regen_us < placed_at <= ts is at least
\* max_credits, whatever the wall clock reads; a rejected event writes
\* nothing.  With max_credits = 3 and a window of 60 s, after commits at T,
\* T + 1 s and T + 2 s an event at T + 3 s counts 3 and an event at
\* T + 60 s + 1 us counts fewer than 3.
C17_CreditCheckAtEventTime ==
    /\ LET row(t) == [id |-> <<t>>, user_pk |-> "u", x |-> 0, y |-> 0,
                      color |-> 0, placed_at |-> t]
           rows == <<row(0), row(1000000), row(2000000)>>
       IN  /\ count_recent_placements(rows, "u", 3000000, 60000000) >= 3
           /\ count_recent_placements(rows, "u", 60000001, 60000000) < 3
           /\ count_recent_placements(rows, "u", 60000000, 60000000) = 2
    /\ [][ (ProcessedQualifying /\ result' \in {"NoCredits", "Ok", "ErrStoreCommit"})
             => LET u == event'.uri.user_pk
                    ts == parse_timestamp_id(event'.uri.id).value
                    N == Cardinality({i \in Rows :
                                        /\ pixel_events[i].user_pk = u
                                        /\ ts - regen_us < pixel_events[i].placed_at
                                        /\ pixel_events[i].placed_at <= ts})
                IN  /\ result' = "NoCredits" <=> N >= max_credits
                    /\ result' = "NoCredits" => UNCHANGED <<store, sse_tx>>
       ]_vars

\* alice's event of timestamp 3 delivered when the clock reads 4, after her
\* commit at 2: the window (1, 3] holds that commit, the window (2, 4] of the
\* wall clock holds none
C17_Witness ==
    /\ result = "NoCredits"
    /\ event.uri = PixelUri("alice", <<"0","3">>)
    /\ now = 4
    /\ \E i \in Rows : pixel_events[i].user_pk = "alice" /\ pixel_events[i].placed_at = 2
    /\ \A i \in Rows : pixel_events[i].user_pk = "alice" => pixel_events[i].placed_at <= 2

----------------------------------------------------------------------------
----------------------------------------------------------------------------
\* C20: the timestamp window.  An event whose id decodes to a timestamp
\* greater than now + max_future_skew (120 s) or less than oct_first_2024
\* (1_727_740_800_000_000 us) is rejected as StaleOrFutureTimestamp before
\* the blob is fetched and with nothing written; hence every row of
\* pixel_events has placed_at >= oct_first_2024, a row is added only with
\* placed_at <= (the clock at its processing) + max_future_skew, and an id
\* that decodes to a negative value never gets a row.
C20_TimestampWindow ==
    [][ /\ ProcessedQualifying =>
             LET parsed == DecodedIds[event'.uri.id]
                 ts == parsed.value
             IN  /\ (/\ parsed.ok
                     /\ ts > now + max_future_skew \/ ts < oct_first_2024
                     /\ result' # "ErrStoreDedupe")
                      => /\ result' = "StaleOrFutureTimestamp"
                         /\ UNCHANGED <<store, sse_tx>>
                 /\ result' = "StaleOrFutureTimestamp"
                      => /\ parsed.ok
                         /\ ts > now + max_future_skew \/ ts < oct_first_2024
                 /\ Len(pixel_events') > Len(pixel_events)
                      => /\ parsed.ok
                         /\ ts >= oct_first_2024
                         /\ ts <= now + max_future_skew
                         /\ pixel_events'[Len(pixel_events')].placed_at = ts
        /\ \A i \in 1..Len(pixel_events') :
             /\ pixel_events'[i].placed_at >= oct_first_2024
             /\ pixel_events'[i].placed_at >= 0
             /\ pixel_events'[i].placed_at <= now' + max_future_skew
      ]_vars

\* the id ZZ, whose word reads -1 as a signed value, rejected with nothing
\* written, in a store that holds a row placed one unit ahead of the clock of
\* its processing
C20_Witness ==
    /\ result = "StaleOrFutureTimestamp"
    /\ event.uri.id = <<"Z", "Z">>
    /\ parse_timestamp_id(event.uri.id).value < 0
    /\ \E i \in Rows : pixel_events[i].placed_at = now + max_future_skew

----------------------------------------------------------------------------
\* C21: fan-out correspondence and order.  The PixelPlaced messages on the
\* bus, in the order they were sent, are the rows of pixel_events in commit
\* order, one message per row carrying the row's x, y, color, author and
\* placed_at; a message is sent only in the step that commits its row, and
\* no message is sent for an event that was deduped, rejected or failed.
C21_FanOutInCommitOrder ==
    [][ LET IsPixel(m) == m.type = "pixel"
            sent == SelectSeq(sse_tx', IsPixel)
        IN  /\ Len(sent) = Len(pixel_events')
            /\ \A i \in 1..Len(sent) :
                 sent[i] = PixelPlaced(Px(pixel_events'[i].x, pixel_events'[i].y,
                                          pixel_events'[i].color),
                                       pixel_events'[i].user_pk,
                                       pixel_events'[i].placed_at)
            /\ (Len(sse_tx') > Len(sse_tx) /\ IsPixel(sse_tx'[Len(sse_tx')]))
                 => ProcessedQualifying /\ result' = "Ok"
      ]_vars

----------------------------------------------------------------------------
\* C22: the round trip of the id decoding.  An id of IdLen (13) characters
\* decodes, BitsPerChar (5) bits per character from the most significant on,
\* to a word of WordBits (64) bits with decode(encode(v)) = v for every
\* word v; decoding fails exactly when the length is not IdLen or a
\* character is outside the alphabet (such as U); and two different ids
\* decode to the same value only when they differ by letter case and the
\* aliases I, L -> 1 and O -> 0: ids that differ in the high bit of the first
\* character do not collide.
C22_DecodeRoundTrip ==
    LET Symbols == {"0","1","2","3","4","5","6","7","8","9","A","B","C","D",
                    "E","F","G","H","J","K","M","N","P","Q","R","S","T","V",
                    "W","X","Y","Z","I","L","O",
                    "a","b","c","d","e","f","g","h","j","k","m","n","p","q",
                    "r","s","t","v","w","x","y","z","i","l","o"}
        Upper(c) == IF c = "o" THEN "O" ELSE IF c = "l" THEN "L"
                    ELSE IF c = "g" THEN "G" ELSE c
        Canon(c) == IF Upper(c) = "O" THEN "0"
                    ELSE IF Upper(c) \in {"I", "L"} THEN "1" ELSE Upper(c)
        Canonical(id) == [k \in 1..Len(id) |-> Canon(id[k])]
        WellFormed(id) == Len(id) = IdLen /\ \A k \in 1..Len(id) : id[k] \in Symbols
    IN
    /\ (call.fn = "decode" /\ call.ret # Pending) =>
          /\ call.ret.ok <=> WellFormed(call.id)
          /\ call.other_ret.ok <=> WellFormed(call.other)
          /\ (call.ret.ok /\ call.other_ret.ok
                /\ call.ret.value = call.other_ret.value)
               => Canonical(call.id) = Canonical(call.other)
    /\ (call.fn = "round_trip" /\ call.ret # Pending) =>
          /\ call.ret.ok
          /\ call.ret.value = AsSigned(call.v)

----------------------------------------------------------------------------
\* C23: event filtering.  A parsed event whose type is not PUT, whose URI is
\* not pubky://<user_pk>/pub/pubky-canva/pixels/<non-empty id>, or whose
\* user_pk is not among the users tracked for the polled homeserver in this
\* cycle never enters process_pixel_event: the step ends as "Filtered" (no
\* blob fetch) and leaves pixel_events, canvas_state, canvas_resizes and the
\* bus as they were.
C23_EventFiltering ==
    [][ LET uri == event'.uri
            IsPixelUri == /\ uri.scheme = "pubky://"
                          /\ uri.path = "pub/pubky-canva/pixels/"
                          /\ Len(uri.id) > 0
        IN  (/\ ProcessEvent
             /\ \/ event'.event_type # "PUT"
                \/ ~IsPixelUri
                \/ uri.user_pk \notin groups[hs_pk])
              => /\ result' = "Filtered"
                 /\ UNCHANGED <<pixel_events, canvas_state, canvas_resizes, sse_tx>>
      ]_vars

\* an https URI with the pixel path and an id was filtered after pixels
\* were placed
C23_Witness ==
    /\ result = "Filtered"
    /\ event.event_type = "PUT"
    /\ event.uri.scheme = "https://"
    /\ event.uri.path = PixelPath
    /\ event.uri.id # << >>
    /\ pixel_events # << >>

----------------------------------------------------------------------------
\* C24: SSE parsing.  The blocks of the response are its runs of lines
\* between blank lines.  The parser returns, in the order of the stream, one
\* {event_type, uri, cursor} for each block that a blank line ends and that
\* has an event line, with the block's own URI and cursor; a data line that
\* is neither a URI, a "cursor: " line nor a "content_hash:" line does not
\* change the block's URI; the block at the end of the text that no blank
\* line ends is returned if and only if it has both an event line and a URI;
\* the empty text returns the empty sequence.
C24_SseParsing ==
    LET text == call.text
        n == Len(text)
        Blank(i) == text[i] = Line("", "", "")
        IsType(i) == text[i].prefix = "event: "
        IsCursor(i) == text[i].prefix = "data: " /\ text[i].sub = "cursor: "
        IsUri(i) == /\ text[i].prefix = "data: "
                    /\ text[i].sub = ""
                    /\ text[i].text \in {AliceUriText, BobUriText}
        \* the lines of the block that ends before position j
        BlockOf(j) == {i \in 1..(j - 1) : \A k \in i..(j - 1) : ~Blank(k)}
        LastText(B, P(_)) ==
            IF \E i \in B : P(i)
            THEN text[CHOOSE i \in B : P(i) /\ \A k \in B : P(k) => k <= i].text
            ELSE ""
        EventOf(j) == SseEventParsed(LastText(BlockOf(j), IsType),
                                     LastText(BlockOf(j), IsUri),
                                     LastText(BlockOf(j), IsCursor))
        Emitted(j) == IF j <= n
                      THEN Blank(j) /\ EventOf(j).event_type # ""
                      ELSE EventOf(j).event_type # "" /\ EventOf(j).uri # ""
        Ends == SelectSeq([j \in 1..(n + 1) |-> j], Emitted)
        Expected == [k \in 1..Len(Ends) |-> EventOf(Ends[k])]
    IN  (call.fn = "parse_sse_response" /\ call.returned)
          => call.events = Expected

----------------------------------------------------------------------------
\* C25: event-level failure isolation.  When the processing of an event of
\* a homeserver's stream fails (the id decoding, a validation, the fetch,
\* the store, or the write of the cursor), poll_homeserver stays in its loop
\* over the events of the response, so that the remaining events of the
\* stream are processed in the same poll cycle.
C25_EventFailureIsolation ==
    [][(/\ ProcessedQualifying
        /\ \/ result' \in Rejections \cup {"ErrStoreDedupe", "ErrStoreCommit"}
           \/ (event'.cursor # "" /\ users'[event'.uri.user_pk].cursor # event'.cursor))
          => /\ hs_result' = "Running"
             /\ pc' = "cycle"
             /\ hs_pk' = hs_pk
      ]_vars

----------------------------------------------------------------------------
\* C27 as stated: resize scheduling.  Every poll cycle runs the resize check
\* exactly once, after all its homeservers have been polled: every tick
\* enters a cycle, a cycle is only left through the resize check (or by the
\* process being restarted), the check runs with no homeserver left to poll
\* and ends the cycle; and a record is only appended to canvas_resizes by the
\* check, one at a time, so at most one per cycle.
C27_ResizeOncePerCycle ==
    [][ /\ PollCycle => pc' = "cycle"
        /\ (pc = "cycle" /\ pc' = "idle") => ((todo = {} /\ CheckResize) \/ Restart)
        /\ CheckResize => (pc = "cycle" /\ todo = {} /\ pc' = "idle")
        /\ Len(canvas_resizes') <= Len(canvas_resizes) + 1
        /\ Len(canvas_resizes') > Len(canvas_resizes) => CheckResize
      ]_vars

\* C27 amended: the same for every poll cycle that loaded a non-empty
\* snapshot of the users.  A tick whose load of the users fails, or that
\* finds no user, returns without the resize check and appends no record.
C27_ResizeOncePerPollingCycle ==
    [][ /\ (PollCycle /\ cycle_result' # "Err" /\ DOMAIN users # {})
             => pc' = "cycle"
        /\ (PollCycle /\ pc' # "cycle") => UNCHANGED <<canvas_resizes, sse_tx>>
        /\ (pc = "cycle" /\ pc' = "idle") => ((todo = {} /\ CheckResize) \/ Restart)
        /\ CheckResize => (pc = "cycle" /\ todo = {} /\ pc' = "idle")
        /\ Len(canvas_resizes') <= Len(canvas_resizes) + 1
        /\ Len(canvas_resizes') > Len(canvas_resizes) => CheckResize
      ]_vars

\* the check of this cycle appended a record, and the fill statistics
\* satisfy the trigger for the new size as well
C27_Witness ==
    /\ pc = "idle"
    /\ cycle_result = "Ok"
    /\ Len(canvas_resizes) >= 2
    /\ canvas_resizes[Len(canvas_resizes)].activated_at = now
    /\ LET dims == get_canvas_dimensions(canvas_resizes)
           stats == get_fill_stats(canvas_state)
       IN  /\ stats.filled >= dims.width * dims.height
           /\ stats.overwritten >= (dims.width * dims.height) \div 2

----------------------------------------------------------------------------
\* C30: the canvas cell reflects the latest commit.  In every reachable
\* state a cell exists at (x, y) if and only if pixel_events has a row at
\* (x, y), and the cell's color, author and placed_at are those of the row
\* committed last at (x, y), in commit order, whatever the placed_at of the
\* rows committed before it.
C30_CellReflectsLatestCommit ==
    LET At(c) == {i \in 1..Len(pixel_events) :
                     <<pixel_events[i].x, pixel_events[i].y>> = c}
        Committed == {<<pixel_events[i].x, pixel_events[i].y>> :
                         i \in 1..Len(pixel_events)}
        LastAt(c) == CHOOSE i \in At(c) : \A k \in At(c) : k <= i
    IN  /\ DOMAIN canvas_state = Committed
        /\ \A c \in DOMAIN canvas_state \cap Committed :
              /\ canvas_state[c].color = pixel_events[LastAt(c)].color
              /\ canvas_state[c].user_pk = pixel_events[LastAt(c)].user_pk
              /\ canvas_state[c].placed_at = pixel_events[LastAt(c)].placed_at

----------------------------------------------------------------------------
\* C26: scheduler liveness.  A poll cycle that ends in an error (the load
\* of the user groups fails, the resize check fails, or a homeserver's
\* request fails) never stops the scheduler: the loop is only left once the
\* shutdown signal was sent, a failed request leaves the cycle running and a
\* failed cycle leaves the loop waiting for its next tick.  And as long as
\* no shutdown signal is sent, another tick eventually runs: a cycle in
\* progress ends, a tick that came due during a cycle fires (missed is
\* cleared by that tick alone), and while the loop waits before the last
\* period of the clock the next period's tick fires (the clock of a waiting
\* loop is advanced by that tick alone), unless the signal is sent.
C26_SchedulerLiveness ==
    /\ [][ /\ pc' = "stopped" => (pc = "stopped" \/ shutdown)
           /\ (PollHomeserver /\ hs_result' = "ErrHttp") => pc' = "cycle"
           /\ ((PollCycle \/ PollCycleMissed \/ CheckResize) /\ cycle_result' = "Err")
                => pc' = "idle"
         ]_vars
    /\ (pc = "cycle") ~> (pc = "idle" \/ shutdown)
    /\ missed ~> (~missed \/ shutdown)
    /\ \A t \in 1..(MaxTime - 1) :
          (pc = "idle" /\ ~missed /\ now = t /\ ~shutdown)
             ~> (now = t + 1 \/ shutdown)

\* after pixels were placed a poll cycle ended in an error, by its resize
\* check or by its load of the users; the loop waits for the next tick
C26_Witness ==
    /\ cycle_result = "Err"
    /\ pc = "idle"
    /\ ~shutdown
    /\ now < MaxTime
    /\ pixel_events # << >>

----------------------------------------------------------------------------
\* C28: ticks do not overlap.  At most one poll cycle is in progress: a
\* tick only fires when no cycle is running, the steps of a cycle
\* (poll_homeserver, the processing of an event, the resize check) are only
\* taken within the one cycle in progress and on its one snapshot, which is
\* not taken anew while the cycle runs; and a tick that came due while a
\* cycle was running waits until that cycle has ended with its resize check
\* and fires then.
C28_TicksDoNotOverlap ==
    [][ /\ (PollCycle \/ PollCycleMissed) =>
              (pc = "idle" /\ hs_result # "Running" /\ todo = {})
        /\ (PollHomeserver \/ ProcessEvent \/ CheckResize) => pc = "cycle"
        /\ (pc = "cycle" /\ pc' = "cycle") =>
              (groups' = groups /\ todo' \subseteq todo)
        /\ (missed /\ pc = "cycle") => ((missed' /\ pc' = "cycle") \/ CheckResize)
        /\ (missed /\ ~missed') => (PollCycleMissed /\ pc = "idle" /\ now' = now)
      ]_vars

\* a period elapsed while the cycle that committed a pixel was still
\* running: the tick is due and the cycle goes on
C28_Witness ==
    /\ missed
    /\ pc = "cycle"
    /\ result = "Ok"
    /\ pixel_events # << >>

----------------------------------------------------------------------------
\* C29: shutdown.  The loop of the watcher is only left by the branch of
\* the shutdown signal, taken between two ticks, with the signal sent and no
\* cycle in progress; a poll cycle in progress while the signal is pending
\* goes on and is only left through its resize check, with no homeserver
\* left to poll, and it does get there; once the loop has observed the
\* signal no poll cycle starts: the store, the bus and the rows of the
\* tracked users stay as they are.
C29_Shutdown ==
    /\ [][ /\ (pc' = "stopped" /\ pc # "stopped") =>
                 /\ Stop
                 /\ shutdown
                 /\ pc = "idle" /\ todo = {} /\ hs_result # "Running"
           /\ (pc = "cycle" /\ shutdown) =>
                 \/ pc' = "cycle" /\ groups' = groups /\ todo' \subseteq todo
                 \/ CheckResize /\ todo = {}
           /\ pc = "stopped" =>
                 /\ pc' = "stopped"
                 /\ UNCHANGED <<store, sse_tx, groups, todo, cycle_result>>
                 /\ \A u \in DOMAIN users : users'[u] = users[u]
         ]_vars
    /\ (pc = "cycle" /\ shutdown)
          ~> (pc = "idle" /\ todo = {} /\ cycle_result \in {"Ok", "Err"})

\* the signal is pending while a cycle that committed a pixel still has a
\* homeserver to poll
C29_Witness ==
    /\ shutdown
    /\ pc = "cycle"
    /\ todo # {}
    /\ result = "Ok"
    /\ pixel_events # << >>

----------------------------------------------------------------------------
\* C31: block isolation in the SSE parser.  The blocks of the response are
\* its runs of lines between blank lines.  The parser returns one event for
\* each block that a blank line ends and that has an event line, in order,
\* and at most one more for the block at the end of the text; the uri of
\* every returned event is empty or the payload of a data line of its own
\* block, and its cursor is empty or the value of a "cursor: " line of its
\* own block: nothing seen in an earlier block (one with data lines but no
\* event line, or one without a cursor line of its own) is attached to the
\* event of a later block, so the cursor written for an event is never the
\* cursor of another one.
C31_BlockIsolation ==
    LET text == call.text
        n == Len(text)
        Blank(i) == text[i] = Line("", "", "")
        IsType(i) == text[i].prefix = "event: "
        IsCursor(i) == text[i].prefix = "data: " /\ text[i].sub = "cursor: "
        IsPayload(i) == /\ text[i].prefix = "data: "
                        /\ text[i].sub = ""
                        /\ text[i].text # ""
        \* the lines of the block that ends before position j
        BlockOf(j) == {i \in 1..(j - 1) : \A k \in i..(j - 1) : ~Blank(k)}
        Ended(j) == Blank(j) /\ \E i \in BlockOf(j) : IsType(i)
        Ends == SelectSeq([j \in 1..n |-> j], Ended)
        \* the position that ends the block of the k-th returned event
        EndOf(k) == IF k <= Len(Ends) THEN Ends[k] ELSE n + 1
        Own(k, P(_)) == {text[i].text : i \in {b \in BlockOf(EndOf(k)) : P(b)}}
    IN  (call.fn = "parse_sse_response" /\ call.returned) =>
          /\ Len(call.events) \in {Len(Ends), Len(Ends) + 1}
          /\ \A k \in 1..Len(call.events) :
                /\ call.events[k].uri \in {""} \cup Own(k, IsPayload)
                /\ call.events[k].cursor \in {""} \cup Own(k, IsCursor)

====
